---- MODULE Spec2Model ----
(***************************************************************************)
(* Model of root2xgboost: the two ROOTToXGBoost adapters (signal and       *)
(* background trees -> bundle, TMVA dataset partition -> bundle) and the   *)
(* trainer xgboost_train, with every call into the XGBoost C API recorded  *)
(* in a log together with the status the library returned.                 *)
(***************************************************************************)
EXTENDS Integers, Sequences, FiniteSets, TLC

\* ---------------------------------------------------------------- bounds
MaxEvents == 4
MaxVars == 2
\* Events of a TMVA data set (both partitions together).
MaxDsEvents == 3
\* Events of the data set a trainer run starts from.
MaxTrainEvents == 1
MaxOpts == 2
MaxIter == 2
MaxBenchIters == 2

\* ------------------------------------------------------------- constants
\* Float_t is IEEE-754 single precision: 24 significant bits.
FloatMantissa == 24

\* Marks an array cell that has been allocated but not written.
Uninit == -1

\* DMatrixHandle / BoosterHandle values: NULL-or-garbage before creation.
NoHandle == 0
DMatHandle == 1
BoosterH == 2

NoData == [n_sig |-> 0, n_bgd |-> 0, weights |-> <<>>, labels |-> <<>>,
           sb_dmats |-> <<NoHandle>>, allocated |-> FALSE]

\* The null pointer passed for an absent weight.
NullPtr == -1

\* --------------------------------------------------------------- helpers
RECURSIVE Pow2(_)
Pow2(n) == IF n = 0 THEN 1 ELSE 2 * Pow2(n - 1)

RECURSIVE FloatUnit(_, _)
\* Spacing of single-precision values around x >= 0.
FloatUnit(x, u) == IF x < u * Pow2(FloatMantissa) THEN u ELSE FloatUnit(x, 2 * u)

\* Conversion of a non-negative integer-valued double to Float_t
\* (round to nearest, ties to even).
Float32(x) ==
    LET u == FloatUnit(x, 1)
        q == x \div u
        r == x % u
    IN  IF 2 * r < u THEN q * u
        ELSE IF 2 * r > u THEN (q + 1) * u
        ELSE IF q % 2 = 0 THEN q * u ELSE (q + 1) * u

Range(f) == {f[x] : x \in DOMAIN f}

SeqsUpTo(S, n) == UNION {[1..m -> S] : m \in 0..n}

\* A freshly allocated Float_t[n]: n unwritten cells, indexed from 0.
NewArray(n) == [x \in 0..(n - 1) |-> Uninit]

\* A freshly declared Float_t[rows][cols].
NewMatrix(rows, cols) == [c \in (0..(rows - 1)) \X (0..(cols - 1)) |-> Uninit]

\* ------------------------------------------------------ the input trees
\* Branches present in both generated trees.
Branches == {"var0", "var1"}

VarNames == Branches \cup {"nope"}

VarNo(v) == IF v = "var0" THEN 0 ELSE IF v = "var1" THEN 1 ELSE 2

\* Value of branch v in signal event r and in background event r.
SigVal(r, v) == 100 + 10 * r + VarNo(v)

BgdVal(r, v) == 200 + 10 * r + VarNo(v)

\* Explicit class weights a caller may pass.
ExplicitWeights == {3, 5}

\* ------------------------------------------------- the TMVA data set
\* Original weights (Double_t) an event may carry; the second is not a
\* single-precision value.
OrigWeights == {1, 16777217}

EventKinds == [cls : {"Signal", "Background"}, weight : OrigWeights]

\* A data set: its variables' count, its events in order, and the block
\* split: the first nTrain events are the training partition, the rest
\* the testing partition.
DataSets(maxEv) ==
    {[nvars |-> nv, events |-> evs, nTrain |-> nt] :
        nv \in 0..MaxVars, evs \in SeqsUpTo(EventKinds, maxEv), nt \in 0..maxEv}

TreeTypes == {"kTraining", "kTesting", "kValidation"}

\* dataset->GetEventCollection(type)
GetEventCollection(ds, t) ==
    LET nt == IF ds.nTrain < Len(ds.events) THEN ds.nTrain ELSE Len(ds.events)
    IN  IF t = "kTraining" THEN SubSeq(ds.events, 1, nt)
        ELSE IF t = "kTesting" THEN SubSeq(ds.events, nt + 1, Len(ds.events))
        ELSE <<>>

\* Position of the r-th event of partition t in the whole data set.
EventId(ds, t, r) ==
    LET nt == IF ds.nTrain < Len(ds.events) THEN ds.nTrain ELSE Len(ds.events)
    IN  IF t = "kTesting" THEN nt + r ELSE r

\* Number of events of class c recorded for partition t.
GetNClassEvents(ds, t, c) ==
    Cardinality({r \in DOMAIN GetEventCollection(ds, t) :
                    GetEventCollection(ds, t)[r].cls = c})

GetNEvtSigTest(ds) == GetNClassEvents(ds, "kTesting", "Signal")
GetNEvtBkgdTest(ds) == GetNClassEvents(ds, "kTesting", "Background")
GetNEvtSigTrain(ds) == GetNClassEvents(ds, "kTraining", "Signal")
GetNEvtBkgdTrain(ds) == GetNClassEvents(ds, "kTraining", "Background")

\* dataset_info.IsSignal(event)
IsSignal(ev) == ev.cls = "Signal"

\* event->GetValue(jj) of the event with the given position in the data set.
GetValue(id, jj) == 10 * id + jj

\* Hyperparameters a caller may pass.
OptPairs == {<<"max_depth", "2">>, <<"eta", "1">>}

\* Quotients an integer division by zero may leave behind when it does
\* not trap.
DivZeroQuotients == {0, 7}

VARIABLES
    pc,          \* position of the running call, or how the last one ended
    fn,          \* function the position belongs to
    variables,   \* two-tree adapter: requested branch names
    sig_weight,  \* two-tree adapter: *sig_weight, or NullPtr
    bgd_weight,  \* two-tree adapter: *bgd_weight, or NullPtr
    dataset,     \* dataset adapter: the TMVA data set
    type,        \* dataset adapter: the partition selector
    n_sig, n_bgd, n_vars,
    sb_mat,      \* the stack matrix of the running adapter
    i, j, k,     \* loop indices
    sw, bw,      \* class weights of the two-tree adapter
    data,        \* the xgboost_data bundle
    opts, n_iter, iter, optIdx, booster, result,   \* trainer
    calls,       \* log of calls into the XGBoost C API
    callBase,    \* length of the log when the trainer was entered
    bench,       \* benchmark function that is running, if any
    state_range, \* its arguments state.range(0), state.range(1)
    iter_c,      \* its count of benchmark-loop iterations
    runs         \* history: the trainer runs it has completed

vars == <<pc, fn, variables, sig_weight, bgd_weight, dataset, type, n_sig, n_bgd,
          n_vars, sb_mat, i, j, k, sw, bw, data, opts, n_iter, iter, optIdx,
          booster, result, calls, callBase, bench, state_range, iter_c, runs>>

adapterIn == <<variables, sig_weight, bgd_weight, dataset, type>>
trainerVars == <<opts, n_iter, iter, optIdx, booster, result, callBase>>
benchVars == <<bench, state_range, iter_c, runs>>

\* Status an XGBoost C API call may return: 0, or -1 on failure.
Statuses == {0, -1}

\* Variant of the constructor that sizes both arrays by the signal count.
xgboost_data_SignalSized(ns, nb) ==
    [n_sig |-> ns, n_bgd |-> nb, weights |-> NewArray(ns),
     labels |-> NewArray(ns), sb_dmats |-> <<NoHandle>>, allocated |-> TRUE]

\* ------------------------------------------------------ xgboost_data
\* The constructor: records the counts and allocates both arrays.
xgboost_data(ns, nb) ==
    [n_sig |-> ns, n_bgd |-> nb, weights |-> NewArray(ns + nb),
     labels |-> NewArray(ns + nb), sb_dmats |-> <<NoHandle>>, allocated |-> TRUE]


\* Variant of the macro that drops the status.
safe_xgboost_Unchecked(err, next) == next

\* ------------------------------------------------------ safe_xgboost
\* The macro: a non-zero status raises, a zero status goes on to `next`.
safe_xgboost(err, next) == IF err # 0 THEN "threw" ELSE next

\* ---------------------------------------------------------------- Init
Init ==
    /\ pc = "idle"
    /\ fn = "none"
    /\ variables = <<>>
    /\ sig_weight = NullPtr
    /\ bgd_weight = NullPtr
    /\ dataset = <<>>
    /\ type = "kTraining"
    /\ n_sig = 0
    /\ n_bgd = 0
    /\ n_vars = 0
    /\ sb_mat = <<>>
    /\ i = 0
    /\ j = 0
    /\ k = 0
    /\ sw = Uninit
    /\ bw = Uninit
    /\ data = NoData
    /\ opts = <<>>
    /\ n_iter = 0
    /\ iter = 0
    /\ optIdx = 1
    /\ booster = NoHandle
    /\ result = NoHandle
    /\ calls = <<>>
    /\ callBase = 0
    /\ bench = "none"
    /\ state_range = <<0, 0>>
    /\ iter_c = 0
    /\ runs = <<>>

\* ================================================== two-tree adapter
\* ROOTToXGBoost(signal_tree, background_tree, variables, sig_weight, bgd_weight)

\* Entry: count both trees, count the variables, declare sb_mat.
CallTreePair(ns, nb, vs, sWt, bWt) ==
    /\ pc = "idle"
    /\ fn' = "ROOTToXGBoost_trees"
    /\ variables' = vs
    /\ sig_weight' = sWt
    /\ bgd_weight' = bWt
    /\ n_sig' = ns
    /\ n_bgd' = nb
    /\ n_vars' = Len(vs)
    /\ sb_mat' = NewMatrix(ns + nb, Len(vs))
    /\ j' = 0
    /\ pc' = "tt_fill"
    /\ UNCHANGED <<dataset, type, i, k, sw, bw, data, calls>>
    /\ UNCHANGED trainerVars
    /\ UNCHANGED benchVars

\* Variant of the fill loop in which the row index restarts at 0 for the
\* background values.
TT_FillColumn_RowsRestart ==
    /\ pc = "tt_fill"
    /\ j < n_vars
    /\ variables[j + 1] \in Branches
    /\ sb_mat' = [c \in DOMAIN sb_mat |->
                    IF c[2] # j THEN sb_mat[c]
                    ELSE IF c[1] < n_bgd THEN BgdVal(c[1], variables[j + 1])
                    ELSE IF c[1] < n_sig THEN SigVal(c[1], variables[j + 1])
                    ELSE sb_mat[c]]
    /\ i' = n_bgd
    /\ j' = j + 1
    /\ UNCHANGED <<pc, fn, n_sig, n_bgd, n_vars, k, sw, bw, data, calls>>
    /\ UNCHANGED adapterIn
    /\ UNCHANGED benchVars
    /\ UNCHANGED trainerVars

\* One pass of the loop over the variables: column j of every row.
TT_FillColumn ==
    /\ pc = "tt_fill"
    /\ j < n_vars
    /\ variables[j + 1] \in Branches
    /\ sb_mat' = [c \in DOMAIN sb_mat |->
                    IF c[2] # j THEN sb_mat[c]
                    ELSE IF c[1] < n_sig THEN SigVal(c[1], variables[j + 1])
                    ELSE BgdVal(c[1] - n_sig, variables[j + 1])]
    /\ i' = n_sig + n_bgd
    /\ j' = j + 1
    /\ UNCHANGED <<pc, fn, n_sig, n_bgd, n_vars, k, sw, bw, data, calls>>
    /\ UNCHANGED adapterIn
    /\ UNCHANGED benchVars
    /\ UNCHANGED trainerVars

\* Take<Float_t>(var) on a branch neither tree has: the data frame raises.
TT_FillMissing ==
    /\ pc = "tt_fill"
    /\ j < n_vars
    /\ variables[j + 1] \notin Branches
    /\ pc' = "threw"
    /\ UNCHANGED <<fn, n_sig, n_bgd, n_vars, sb_mat, i, j, k, sw, bw, data, calls>>
    /\ UNCHANGED adapterIn
    /\ UNCHANGED benchVars
    /\ UNCHANGED trainerVars

\* new xgboost_data(*n_sig, *n_bgd)
TT_Alloc ==
    /\ pc = "tt_fill"
    /\ j >= n_vars
    /\ data' = xgboost_data(n_sig, n_bgd)
    /\ pc' = "tt_sw"
    /\ UNCHANGED <<fn, n_sig, n_bgd, n_vars, sb_mat, i, j, k, sw, bw, calls>>
    /\ UNCHANGED adapterIn
    /\ UNCHANGED benchVars
    /\ UNCHANGED trainerVars

\* Variant of the balanced weight with the quotient rounded to nearest, as
\* a floating-point division followed by rounding would give.
BalancedWeight_Rounded(other, own) == Float32(1 + ((2 * other + own) \div (2 * own)))

\* 1.0 + (other / own): the quotient is an integer division of the two
\* counts, the sum is a double, the store narrows it to Float_t.
BalancedWeight(other, own) == Float32(1 + (other \div own))

\* Choice of sw. With no weight given and an empty signal tree the
\* division is by zero: the call traps, or goes on with some quotient.
TT_SigWeight ==
    /\ pc = "tt_sw"
    /\ \/ /\ sig_weight = NullPtr
          /\ n_sig # 0
          /\ sw' = BalancedWeight(n_bgd, n_sig)
          /\ pc' = "tt_sigloop"
       \/ /\ sig_weight = NullPtr
          /\ n_sig = 0
          /\ \/ /\ pc' = "trapped"
                /\ sw' = sw
             \/ /\ \E q \in DivZeroQuotients : sw' = Float32(1 + q)
                /\ pc' = "tt_sigloop"
       \/ /\ sig_weight # NullPtr
          /\ sw' = sig_weight
          /\ pc' = "tt_sigloop"
    /\ k' = 0
    /\ UNCHANGED <<fn, n_sig, n_bgd, n_vars, sb_mat, i, j, bw, data, calls>>
    /\ UNCHANGED adapterIn
    /\ UNCHANGED benchVars
    /\ UNCHANGED trainerVars

\* for(k = 0; k < *n_sig; k++){ labels[k] = 0.0; weights[k] = sw; }
TT_SigRow ==
    /\ pc = "tt_sigloop"
    /\ k < n_sig
    /\ data' = [data EXCEPT !.labels[k] = 0, !.weights[k] = sw]
    /\ k' = k + 1
    /\ UNCHANGED <<pc, fn, n_sig, n_bgd, n_vars, sb_mat, i, j, sw, bw, calls>>
    /\ UNCHANGED adapterIn
    /\ UNCHANGED benchVars
    /\ UNCHANGED trainerVars

\* Choice of bw once the signal loop has ended; k restarts at *n_sig.
TT_BgdWeight ==
    /\ pc = "tt_sigloop"
    /\ k >= n_sig
    /\ \/ /\ bgd_weight = NullPtr
          /\ n_bgd # 0
          /\ bw' = BalancedWeight(n_sig, n_bgd)
          /\ pc' = "tt_bgdloop"
       \/ /\ bgd_weight = NullPtr
          /\ n_bgd = 0
          /\ \/ /\ pc' = "trapped"
                /\ bw' = bw
             \/ /\ \E q \in DivZeroQuotients : bw' = Float32(1 + q)
                /\ pc' = "tt_bgdloop"
       \/ /\ bgd_weight # NullPtr
          /\ bw' = bgd_weight
          /\ pc' = "tt_bgdloop"
    /\ k' = n_sig
    /\ UNCHANGED <<fn, n_sig, n_bgd, n_vars, sb_mat, i, j, sw, data, calls>>
    /\ UNCHANGED adapterIn
    /\ UNCHANGED benchVars
    /\ UNCHANGED trainerVars

\* Variant of the background loop that writes the signal label.
TT_BgdRow_SignalLabel ==
    /\ pc = "tt_bgdloop"
    /\ k < n_sig + n_bgd
    /\ data' = [data EXCEPT !.labels[k] = 0, !.weights[k] = bw]
    /\ k' = k + 1
    /\ UNCHANGED <<pc, fn, n_sig, n_bgd, n_vars, sb_mat, i, j, sw, bw, calls>>
    /\ UNCHANGED adapterIn
    /\ UNCHANGED benchVars
    /\ UNCHANGED trainerVars

\* Variant of the background loop that writes the signal weight.
TT_BgdRow_SignalWeight ==
    /\ pc = "tt_bgdloop"
    /\ k < n_sig + n_bgd
    /\ data' = [data EXCEPT !.labels[k] = 1, !.weights[k] = sw]
    /\ k' = k + 1
    /\ UNCHANGED <<pc, fn, n_sig, n_bgd, n_vars, sb_mat, i, j, sw, bw, calls>>
    /\ UNCHANGED adapterIn
    /\ UNCHANGED benchVars
    /\ UNCHANGED trainerVars

\* for(k = *n_sig; k < *n_sig + *n_bgd; k++){ labels[k] = 1.0; weights[k] = bw; }
TT_BgdRow ==
    /\ pc = "tt_bgdloop"
    /\ k < n_sig + n_bgd
    /\ data' = [data EXCEPT !.labels[k] = 1, !.weights[k] = bw]
    /\ k' = k + 1
    /\ UNCHANGED <<pc, fn, n_sig, n_bgd, n_vars, sb_mat, i, j, sw, bw, calls>>
    /\ UNCHANGED adapterIn
    /\ UNCHANGED benchVars
    /\ UNCHANGED trainerVars

\* safe_xgboost(XGDMatrixCreateFromMat(sb_mat, *n_sig + *n_bgd, n_vars, 0, &sb_dmats[0]))
TT_CreateMat ==
    /\ pc = "tt_bgdloop"
    /\ k >= n_sig + n_bgd
    /\ \E err \in Statuses :
        /\ calls' = Append(calls, [fn |-> "XGDMatrixCreateFromMat", data |-> sb_mat,
                                   nrow |-> n_sig + n_bgd, ncol |-> n_vars,
                                   missing |-> 0, status |-> err])
        /\ data' = IF err = 0 THEN [data EXCEPT !.sb_dmats[1] = DMatHandle] ELSE data
        /\ pc' = safe_xgboost(err, "tt_setinfo")
    /\ UNCHANGED <<fn, n_sig, n_bgd, n_vars, sb_mat, i, j, k, sw, bw>>
    /\ UNCHANGED adapterIn
    /\ UNCHANGED benchVars
    /\ UNCHANGED trainerVars

\* Variant of the last step that attaches the weights as well as the labels.
TT_SetInfo_WithWeights ==
    /\ pc = "tt_setinfo"
    /\ \E err \in Statuses :
        /\ calls' = calls \o
                     <<[fn |-> "XGDMatrixSetFloatInfo", handle |-> data.sb_dmats[1],
                        field |-> "label", array |-> data.labels,
                        len |-> n_sig + n_bgd, status |-> 0],
                       [fn |-> "XGDMatrixSetFloatInfo", handle |-> data.sb_dmats[1],
                        field |-> "weight", array |-> data.weights,
                        len |-> n_sig + n_bgd, status |-> err]>>
        /\ pc' = safe_xgboost(err, "returned")
    /\ UNCHANGED <<fn, n_sig, n_bgd, n_vars, sb_mat, i, j, k, sw, bw, data>>
    /\ UNCHANGED adapterIn
    /\ UNCHANGED benchVars
    /\ UNCHANGED trainerVars

\* safe_xgboost(XGDMatrixSetFloatInfo(sb_dmats[0], "label", labels, *n_sig + *n_bgd))
\* and, on success, the return of the bundle.
TT_SetInfo ==
    /\ pc = "tt_setinfo"
    /\ \E err \in Statuses :
        /\ calls' = Append(calls, [fn |-> "XGDMatrixSetFloatInfo",
                                   handle |-> data.sb_dmats[1], field |-> "label",
                                   array |-> data.labels, len |-> n_sig + n_bgd,
                                   status |-> err])
        /\ pc' = safe_xgboost(err, "returned")
    /\ UNCHANGED <<fn, n_sig, n_bgd, n_vars, sb_mat, i, j, k, sw, bw, data>>
    /\ UNCHANGED adapterIn
    /\ UNCHANGED benchVars
    /\ UNCHANGED trainerVars

WeightArgs == {NullPtr} \cup ExplicitWeights

NextTreePair ==
    \/ /\ pc = "idle"
       /\ \E ns \in 0..MaxEvents, nb \in 0..MaxEvents, vs \in SeqsUpTo(VarNames, MaxVars),
             sWt \in WeightArgs, bWt \in WeightArgs : CallTreePair(ns, nb, vs, sWt, bWt)
    \/ TT_FillColumn
    \/ TT_FillMissing
    \/ TT_Alloc
    \/ TT_SigWeight
    \/ TT_SigRow
    \/ TT_BgdWeight
    \/ TT_BgdRow
    \/ TT_CreateMat
    \/ TT_SetInfo

SpecTreePair == Init /\ [][NextTreePair]_vars


\* ================================================== dataset adapter
\* ROOTToXGBoost(dataset_info, type)

\* Entry: GetDataSet() and GetNVariables().
CallMixed(ds, t) ==
    /\ pc = "idle"
    /\ fn' = "ROOTToXGBoost_dataset"
    /\ dataset' = ds
    /\ type' = t
    /\ n_vars' = ds.nvars
    /\ pc' = "mx_select"
    /\ UNCHANGED <<variables, sig_weight, bgd_weight, n_sig, n_bgd, sb_mat, i, j, k,
                   sw, bw, data, calls>>
    /\ UNCHANGED trainerVars
    /\ UNCHANGED benchVars

\* kTesting or kTraining: read the recorded counts, declare sb_mat,
\* allocate the bundle, i = 0.
MX_Select ==
    /\ pc = "mx_select"
    /\ type \in {"kTesting", "kTraining"}
    /\ n_sig' = IF type = "kTesting" THEN GetNEvtSigTest(dataset)
                ELSE GetNEvtSigTrain(dataset)
    /\ n_bgd' = IF type = "kTesting" THEN GetNEvtBkgdTest(dataset)
                ELSE GetNEvtBkgdTrain(dataset)
    /\ sb_mat' = NewMatrix(n_sig' + n_bgd', n_vars)
    /\ data' = xgboost_data(n_sig', n_bgd')
    /\ i' = 0
    /\ pc' = "mx_loop"
    /\ UNCHANGED <<fn, n_vars, j, k, sw, bw, calls>>
    /\ UNCHANGED adapterIn
    /\ UNCHANGED benchVars
    /\ UNCHANGED trainerVars

\* Variant of the selector check that treats any other selector as training.
MX_BadType_AsTraining ==
    /\ pc = "mx_select"
    /\ type \notin {"kTesting", "kTraining"}
    /\ n_sig' = GetNEvtSigTrain(dataset)
    /\ n_bgd' = GetNEvtBkgdTrain(dataset)
    /\ sb_mat' = NewMatrix(n_sig' + n_bgd', n_vars)
    /\ data' = xgboost_data(n_sig', n_bgd')
    /\ i' = 0
    /\ pc' = "mx_loop"
    /\ UNCHANGED <<fn, n_vars, j, k, sw, bw, calls>>
    /\ UNCHANGED adapterIn
    /\ UNCHANGED benchVars
    /\ UNCHANGED trainerVars

\* Any other selector: throw runtime_error.
MX_BadType ==
    /\ pc = "mx_select"
    /\ type \notin {"kTesting", "kTraining"}
    /\ pc' = "threw"
    /\ UNCHANGED <<fn, n_sig, n_bgd, n_vars, sb_mat, i, j, k, sw, bw, data, calls>>
    /\ UNCHANGED adapterIn
    /\ UNCHANGED benchVars
    /\ UNCHANGED trainerVars

\* Variant of the event loop with the two labels exchanged.
MX_Event_LabelsSwapped ==
    /\ pc = "mx_loop"
    /\ i < Len(GetEventCollection(dataset, type))
    /\ LET event == GetEventCollection(dataset, type)[i + 1]
       IN  /\ sb_mat' = [c \in DOMAIN sb_mat |->
                           IF c[1] = i THEN GetValue(EventId(dataset, type, i + 1), c[2])
                           ELSE sb_mat[c]]
           /\ data' = IF IsSignal(event)
                      THEN [data EXCEPT !.labels[i] = 1,
                                        !.weights[i] = Float32(event.weight)]
                      ELSE [data EXCEPT !.labels[i] = 0,
                                        !.weights[i] = Float32(event.weight)]
    /\ i' = i + 1
    /\ UNCHANGED <<pc, fn, n_sig, n_bgd, n_vars, j, k, sw, bw, calls>>
    /\ UNCHANGED adapterIn
    /\ UNCHANGED benchVars
    /\ UNCHANGED trainerVars

\* Variant of the event loop that stores a balanced class weight, as the
\* two-tree adapter does.
MX_Event_Balanced ==
    /\ pc = "mx_loop"
    /\ i < Len(GetEventCollection(dataset, type))
    /\ LET event == GetEventCollection(dataset, type)[i + 1]
       IN  /\ sb_mat' = [c \in DOMAIN sb_mat |->
                           IF c[1] = i THEN GetValue(EventId(dataset, type, i + 1), c[2])
                           ELSE sb_mat[c]]
           /\ data' = IF IsSignal(event)
                      THEN [data EXCEPT !.labels[i] = 0,
                                        !.weights[i] = Float32(1 + (n_bgd \div n_sig))]
                      ELSE [data EXCEPT !.labels[i] = 1,
                                        !.weights[i] = Float32(1 + (n_sig \div n_bgd))]
    /\ i' = i + 1
    /\ UNCHANGED <<pc, fn, n_sig, n_bgd, n_vars, j, k, sw, bw, calls>>
    /\ UNCHANGED adapterIn
    /\ UNCHANGED benchVars
    /\ UNCHANGED trainerVars

\* One event of the collection: its values into row i, its label and its
\* original weight (a Double_t stored into a Float_t) into cell i; i++.
MX_Event ==
    /\ pc = "mx_loop"
    /\ i < Len(GetEventCollection(dataset, type))
    /\ LET event == GetEventCollection(dataset, type)[i + 1]
       IN  /\ sb_mat' = [c \in DOMAIN sb_mat |->
                           IF c[1] = i THEN GetValue(EventId(dataset, type, i + 1), c[2])
                           ELSE sb_mat[c]]
           /\ data' = IF IsSignal(event)
                      THEN [data EXCEPT !.labels[i] = 0,
                                        !.weights[i] = Float32(event.weight)]
                      ELSE [data EXCEPT !.labels[i] = 1,
                                        !.weights[i] = Float32(event.weight)]
    /\ i' = i + 1
    /\ UNCHANGED <<pc, fn, n_sig, n_bgd, n_vars, j, k, sw, bw, calls>>
    /\ UNCHANGED adapterIn
    /\ UNCHANGED benchVars
    /\ UNCHANGED trainerVars

\* safe_xgboost(XGDMatrixCreateFromMat(sb_mat, n_sig + n_bgd, n_vars, 0, &sb_dmats[0]))
MX_CreateMat ==
    /\ pc = "mx_loop"
    /\ i >= Len(GetEventCollection(dataset, type))
    /\ \E err \in Statuses :
        /\ calls' = Append(calls, [fn |-> "XGDMatrixCreateFromMat", data |-> sb_mat,
                                   nrow |-> n_sig + n_bgd, ncol |-> n_vars,
                                   missing |-> 0, status |-> err])
        /\ data' = IF err = 0 THEN [data EXCEPT !.sb_dmats[1] = DMatHandle] ELSE data
        /\ pc' = safe_xgboost(err, "mx_setinfo")
    /\ UNCHANGED <<fn, n_sig, n_bgd, n_vars, sb_mat, i, j, k, sw, bw>>
    /\ UNCHANGED adapterIn
    /\ UNCHANGED benchVars
    /\ UNCHANGED trainerVars

\* safe_xgboost(XGDMatrixSetFloatInfo(sb_dmats[0], "label", labels, n_sig + n_bgd))
\* and, on success, the return of the bundle.
MX_SetInfo ==
    /\ pc = "mx_setinfo"
    /\ \E err \in Statuses :
        /\ calls' = Append(calls, [fn |-> "XGDMatrixSetFloatInfo",
                                   handle |-> data.sb_dmats[1], field |-> "label",
                                   array |-> data.labels, len |-> n_sig + n_bgd,
                                   status |-> err])
        /\ pc' = safe_xgboost(err, "returned")
    /\ UNCHANGED <<fn, n_sig, n_bgd, n_vars, sb_mat, i, j, k, sw, bw, data>>
    /\ UNCHANGED adapterIn
    /\ UNCHANGED benchVars
    /\ UNCHANGED trainerVars

NextMixed ==
    \/ /\ pc = "idle"
       /\ \E ds \in DataSets(MaxDsEvents), t \in TreeTypes : CallMixed(ds, t)
    \/ MX_Select
    \/ MX_BadType
    \/ MX_Event
    \/ MX_CreateMat
    \/ MX_SetInfo

SpecMixed == Init /\ [][NextMixed]_vars

\* Both adapters.
NextAdapters == NextTreePair \/ NextMixed

SpecAdapters == Init /\ [][NextAdapters]_vars


\* ============================================================ trainer
\* xgboost_train(data, opts, n_iter), called on a bundle an adapter returned

CallTrain(o, n) ==
    /\ pc = "returned"
    /\ fn \in {"ROOTToXGBoost_trees", "ROOTToXGBoost_dataset"}
    /\ fn' = "xgboost_train"
    /\ opts' = o
    /\ n_iter' = n
    /\ optIdx' = 1
    /\ iter' = 0
    /\ callBase' = Len(calls)
    /\ pc' = "tr_create"
    /\ UNCHANGED <<n_sig, n_bgd, n_vars, sb_mat, i, j, k, sw, bw, data, booster,
                   result, calls>>
    /\ UNCHANGED adapterIn
    /\ UNCHANGED benchVars

\* safe_xgboost(XGBoosterCreate(data->sb_dmats, 1, &booster))
TR_Create ==
    /\ pc = "tr_create"
    /\ \E err \in Statuses :
        /\ calls' = Append(calls, [fn |-> "XGBoosterCreate", dmats |-> data.sb_dmats,
                                   len |-> 1, status |-> err])
        /\ booster' = IF err = 0 THEN BoosterH ELSE booster
        /\ pc' = safe_xgboost(err, "tr_loop")
    /\ UNCHANGED <<fn, n_sig, n_bgd, n_vars, sb_mat, i, j, k, sw, bw, data, opts,
                   n_iter, iter, optIdx, result, callBase>>
    /\ UNCHANGED adapterIn
    /\ UNCHANGED benchVars

\* for(auto opt: *opts) safe_xgboost(XGBoosterSetParam(booster, opt.first, opt.second))
TR_SetParam ==
    /\ pc = "tr_loop"
    /\ optIdx <= Len(opts)
    /\ \E err \in Statuses :
        /\ calls' = Append(calls, [fn |-> "XGBoosterSetParam", handle |-> booster,
                                   name |-> opts[optIdx][1], value |-> opts[optIdx][2],
                                   status |-> err])
        /\ pc' = safe_xgboost(err, "tr_loop")
    /\ optIdx' = optIdx + 1
    /\ UNCHANGED <<fn, n_sig, n_bgd, n_vars, sb_mat, i, j, k, sw, bw, data, opts,
                   n_iter, iter, booster, result, callBase>>
    /\ UNCHANGED adapterIn
    /\ UNCHANGED benchVars

\* Variant of the update loop that numbers the iterations by the updates
\* made so far on any booster, not from 0 in every run.
TR_Update_NumbersOn ==
    /\ pc = "tr_loop"
    /\ optIdx > Len(opts)
    /\ iter < n_iter
    /\ \E err \in Statuses :
        /\ calls' = Append(calls, [fn |-> "XGBoosterUpdateOneIter", handle |-> booster,
                                   iter |-> Cardinality({c \in 1..Len(calls) :
                                               calls[c].fn = "XGBoosterUpdateOneIter"}),
                                   dtrain |-> data.sb_dmats[1],
                                   status |-> err])
        /\ pc' = safe_xgboost(err, "tr_loop")
    /\ iter' = iter + 1
    /\ UNCHANGED <<fn, n_sig, n_bgd, n_vars, sb_mat, i, j, k, sw, bw, data, opts,
                   n_iter, optIdx, booster, result, callBase>>
    /\ UNCHANGED adapterIn
    /\ UNCHANGED benchVars

\* Variant of the update loop that runs while iter <= n_iter.
TR_Update_Inclusive ==
    /\ pc = "tr_loop"
    /\ optIdx > Len(opts)
    /\ iter <= n_iter
    /\ \E err \in Statuses :
        /\ calls' = Append(calls, [fn |-> "XGBoosterUpdateOneIter", handle |-> booster,
                                   iter |-> iter, dtrain |-> data.sb_dmats[1],
                                   status |-> err])
        /\ pc' = safe_xgboost(err, "tr_loop")
    /\ iter' = iter + 1
    /\ UNCHANGED <<fn, n_sig, n_bgd, n_vars, sb_mat, i, j, k, sw, bw, data, opts,
                   n_iter, optIdx, booster, result, callBase>>
    /\ UNCHANGED adapterIn
    /\ UNCHANGED benchVars

\* for(iter = 0; iter < n_iter; iter++)
\*     safe_xgboost(XGBoosterUpdateOneIter(booster, iter, data->sb_dmats[0]))
TR_Update ==
    /\ pc = "tr_loop"
    /\ optIdx > Len(opts)
    /\ iter < n_iter
    /\ \E err \in Statuses :
        /\ calls' = Append(calls, [fn |-> "XGBoosterUpdateOneIter", handle |-> booster,
                                   iter |-> iter, dtrain |-> data.sb_dmats[1],
                                   status |-> err])
        /\ pc' = safe_xgboost(err, "tr_loop")
    /\ iter' = iter + 1
    /\ UNCHANGED <<fn, n_sig, n_bgd, n_vars, sb_mat, i, j, k, sw, bw, data, opts,
                   n_iter, optIdx, booster, result, callBase>>
    /\ UNCHANGED adapterIn
    /\ UNCHANGED benchVars

\* return booster;
TR_Return ==
    /\ pc = "tr_loop"
    /\ optIdx > Len(opts)
    /\ iter >= n_iter
    /\ result' = booster
    /\ pc' = "returned"
    /\ UNCHANGED <<fn, n_sig, n_bgd, n_vars, sb_mat, i, j, k, sw, bw, data, opts,
                   n_iter, iter, optIdx, booster, calls, callBase>>
    /\ UNCHANGED adapterIn
    /\ UNCHANGED benchVars

\* A training run as the benchmark drives it: the training partition of a
\* data set is converted, then the trainer runs on the bundle.
NextTrain ==
    \/ /\ pc = "idle"
       /\ \E ds \in DataSets(MaxTrainEvents) : CallMixed(ds, "kTraining")
    \/ MX_Select
    \/ MX_Event
    \/ MX_CreateMat
    \/ MX_SetInfo
    \/ /\ pc = "returned"
       /\ \E o \in SeqsUpTo(OptPairs, MaxOpts), n \in 0..MaxIter : CallTrain(o, n)
    \/ TR_Create
    \/ TR_SetParam
    \/ TR_Update
    \/ TR_Return

SpecTrain == Init /\ [][NextTrain]_vars


\* ================================================ benchmark drivers
\* The (iteration count, max_depth) pairs the benchmarks are registered
\* with, cut down to the iteration bound.
BenchDepths == {2, 10}
BenchArgs == (1..MaxIter) \X BenchDepths

Digits == <<"0", "1", "2", "3", "4", "5", "6", "7", "8", "9">>

\* std::to_string of a non-negative integer.
RECURSIVE to_string(_)
to_string(n) ==
    IF n < 10 THEN Digits[n + 1]
    ELSE to_string(n \div 10) \o Digits[(n % 10) + 1]

\* "BDT_" + to_string(state.range(0)) + "_" + to_string(state.range(1)) + ".model"
ModelFile(range) == "BDT_" \o to_string(range[1]) \o "_" \o to_string(range[2]) \o ".model"

\* What a read through a pointer into a destroyed std::string can give: the
\* characters that were there, or whatever has replaced them.
Garbage == "<garbage>"
DanglingReads(str) == {str, Garbage}

\* What an uninitialised BoosterHandle can hold.
IndeterminateHandles == {NoHandle, BoosterH}

Training == "BM_XGBOOST_BDTTraining"
Testing == "BM_XGBOOST_BDTTesting"

\* The matrix handle of the bundle has been released.
DMatFreed ==
    \E c \in 1..Len(calls) :
        /\ calls[c].fn = "XGDMatrixFree"
        /\ calls[c].handle = data.sb_dmats[1]
        /\ calls[c].status = 0

\* The benchmark function is entered with its arguments; its set-up builds
\* the data set and calls the dataset adapter on the partition it uses.
BM_Setup(b, range, ds) ==
    /\ pc = "idle"
    /\ bench' = b
    /\ state_range' = range
    /\ iter_c' = 0
    /\ runs' = <<>>
    /\ fn' = "ROOTToXGBoost_dataset"
    /\ dataset' = ds
    /\ type' = IF b = Training THEN "kTraining" ELSE "kTesting"
    /\ n_vars' = ds.nvars
    /\ pc' = "mx_select"
    /\ UNCHANGED <<variables, sig_weight, bgd_weight, n_sig, n_bgd, sb_mat, i, j, k,
                   sw, bw, data, calls>>
    /\ UNCHANGED trainerVars

\* The head of for(auto _: state): the adapter has just returned, or an
\* iteration has just ended.
AtLoopHead(b) ==
    /\ bench = b
    /\ \/ pc = "bm_loop"
       \/ pc = "returned" /\ fn = "ROOTToXGBoost_dataset"

\* void xgboost_data::free() const { safe_xgboost(XGDMatrixFree(sb_dmats[0])) }
free(next) ==
    \E err \in Statuses :
        /\ calls' = Append(calls, [fn |-> "XGDMatrixFree", handle |-> data.sb_dmats[1],
                                   status |-> err])
        /\ pc' = safe_xgboost(err, next)

\* ---- BM_XGBOOST_BDTTraining
\* One more iteration: opts gets the pair ("max_depth", pointer into a
\* temporary string that is destroyed at the end of the statement), and
\* xgboost_train(xg_train_data, &opts, state.range(0)) is entered.
BM_TrainIter ==
    /\ AtLoopHead(Training)
    /\ iter_c < MaxBenchIters
    /\ \E v \in DanglingReads(to_string(state_range[2])) :
           opts' = << <<"max_depth", v>> >>
    /\ n_iter' = state_range[1]
    /\ optIdx' = 1
    /\ iter' = 0
    /\ booster' = NoHandle
    /\ result' = NoHandle
    /\ callBase' = Len(calls)
    /\ fn' = "xgboost_train"
    /\ pc' = "tr_create"
    /\ UNCHANGED <<n_sig, n_bgd, n_vars, sb_mat, i, j, k, sw, bw, data, calls>>
    /\ UNCHANGED adapterIn
    /\ UNCHANGED benchVars

\* The trainer has returned: iter_c++, then
\* safe_xgboost(XGBoosterSaveModel(xgbooster, fname.c_str()))
BM_SaveModel ==
    /\ bench = Training
    /\ fn = "xgboost_train"
    /\ pc = "returned"
    /\ iter_c' = iter_c + 1
    /\ runs' = Append(runs, [data |-> data, opts |-> opts, n_iter |-> n_iter,
                             calls |-> SubSeq(calls, callBase + 1, Len(calls))])
    /\ fn' = bench
    /\ \E err \in Statuses :
        /\ calls' = Append(calls, [fn |-> "XGBoosterSaveModel", handle |-> result,
                                   fname |-> ModelFile(state_range), status |-> err])
        /\ pc' = safe_xgboost(err, "bm_train_free")
    /\ UNCHANGED <<n_sig, n_bgd, n_vars, sb_mat, i, j, k, sw, bw, data, bench,
                   state_range>>
    /\ UNCHANGED adapterIn
    /\ UNCHANGED trainerVars

\* safe_xgboost(XGBoosterFree(xgbooster)), the end of the iteration
BM_TrainBoosterFree ==
    /\ pc = "bm_train_free"
    /\ \E err \in Statuses :
        /\ calls' = Append(calls, [fn |-> "XGBoosterFree", handle |-> result,
                                   status |-> err])
        /\ pc' = safe_xgboost(err, "bm_loop")
    /\ UNCHANGED <<fn, n_sig, n_bgd, n_vars, sb_mat, i, j, k, sw, bw, data>>
    /\ UNCHANGED adapterIn
    /\ UNCHANGED trainerVars
    /\ UNCHANGED benchVars

\* The loop is left; teardown: xg_train_data->free();
BM_TrainTeardown ==
    /\ bench = Training
    /\ pc = "bm_loop"
    /\ free("done")
    /\ UNCHANGED <<fn, n_sig, n_bgd, n_vars, sb_mat, i, j, k, sw, bw, data>>
    /\ UNCHANGED adapterIn
    /\ UNCHANGED trainerVars
    /\ UNCHANGED benchVars

\* ---- BM_XGBOOST_BDTTesting
\* One more iteration: BoosterHandle xgbooster; XGBoosterCreate(0, 0, &xgbooster);
\* The status is dropped; after a failure xgbooster is still uninitialised.
BM_TestCreate ==
    /\ AtLoopHead(Testing)
    /\ iter_c < MaxBenchIters
    /\ fn' = bench
    /\ \E err \in Statuses :
        /\ calls' = Append(calls, [fn |-> "XGBoosterCreate", dmats |-> <<>>,
                                   len |-> 0, status |-> err])
        /\ IF err = 0 THEN result' = BoosterH
           ELSE result' \in IndeterminateHandles
    /\ pc' = "bm_load"
    /\ UNCHANGED <<n_sig, n_bgd, n_vars, sb_mat, i, j, k, sw, bw, data, opts, n_iter,
                   iter, optIdx, booster, callBase>>
    /\ UNCHANGED adapterIn
    /\ UNCHANGED benchVars

\* safe_xgboost(XGBoosterLoadModel(xgbooster, fname.c_str())); on a handle
\* that was never created the library call may also crash.
BM_TestLoad ==
    /\ pc = "bm_load"
    /\ \/ \E err \in Statuses :
            /\ calls' = Append(calls, [fn |-> "XGBoosterLoadModel", handle |-> result,
                                       fname |-> ModelFile(state_range), status |-> err])
            /\ pc' = safe_xgboost(err, "bm_predict")
       \/ /\ calls[Len(calls)].status # 0
          /\ pc' = "trapped"
          /\ UNCHANGED calls
    /\ UNCHANGED <<fn, n_sig, n_bgd, n_vars, sb_mat, i, j, k, sw, bw, data>>
    /\ UNCHANGED adapterIn
    /\ UNCHANGED trainerVars
    /\ UNCHANGED benchVars

\* safe_xgboost(XGBoosterPredict(xgbooster, (xg_test_data->sb_dmats)[0], 0, 0,
\*                               &output_length, &output_result))
\* On a matrix handle that has been freed the library call may also crash.
BM_TestPredict ==
    /\ pc = "bm_predict"
    /\ \/ \E err \in Statuses :
            /\ calls' = Append(calls, [fn |-> "XGBoosterPredict", handle |-> result,
                                       dmat |-> data.sb_dmats[1], status |-> err])
            /\ pc' = safe_xgboost(err, "bm_data_free")
       \/ /\ DMatFreed
          /\ pc' = "trapped"
          /\ UNCHANGED calls
    /\ UNCHANGED <<fn, n_sig, n_bgd, n_vars, sb_mat, i, j, k, sw, bw, data>>
    /\ UNCHANGED adapterIn
    /\ UNCHANGED trainerVars
    /\ UNCHANGED benchVars

\* iter_c++; xg_test_data->free(); inside the loop body. Freeing a handle
\* that has been freed may also crash.
BM_TestDataFree ==
    /\ pc = "bm_data_free"
    /\ iter_c' = iter_c + 1
    /\ \/ free("bm_test_free")
       \/ /\ DMatFreed
          /\ pc' = "trapped"
          /\ UNCHANGED calls
    /\ UNCHANGED <<fn, n_sig, n_bgd, n_vars, sb_mat, i, j, k, sw, bw, data, bench,
                   state_range, runs>>
    /\ UNCHANGED adapterIn
    /\ UNCHANGED trainerVars

\* safe_xgboost(XGBoosterFree(xgbooster)), the end of the iteration
BM_TestBoosterFree ==
    /\ pc = "bm_test_free"
    /\ \E err \in Statuses :
        /\ calls' = Append(calls, [fn |-> "XGBoosterFree", handle |-> result,
                                   status |-> err])
        /\ pc' = safe_xgboost(err, "bm_loop")
    /\ UNCHANGED <<fn, n_sig, n_bgd, n_vars, sb_mat, i, j, k, sw, bw, data>>
    /\ UNCHANGED adapterIn
    /\ UNCHANGED trainerVars
    /\ UNCHANGED benchVars

\* The loop is left; the teardown makes no library call.
BM_TestTeardown ==
    /\ bench = Testing
    /\ pc = "bm_loop"
    /\ pc' = "done"
    /\ UNCHANGED <<fn, n_sig, n_bgd, n_vars, sb_mat, i, j, k, sw, bw, data, calls>>
    /\ UNCHANGED adapterIn
    /\ UNCHANGED trainerVars
    /\ UNCHANGED benchVars

\* Either benchmark, from set-up to teardown.
NextBench ==
    \/ /\ pc = "idle"
       /\ \E b \in {Training, Testing}, range \in BenchArgs,
             ds \in DataSets(MaxTrainEvents) : BM_Setup(b, range, ds)
    \/ MX_Select
    \/ MX_Event
    \/ MX_CreateMat
    \/ MX_SetInfo
    \/ BM_TrainIter
    \/ TR_Create
    \/ TR_SetParam
    \/ TR_Update
    \/ TR_Return
    \/ BM_SaveModel
    \/ BM_TrainBoosterFree
    \/ BM_TrainTeardown
    \/ BM_TestCreate
    \/ BM_TestLoad
    \/ BM_TestPredict
    \/ BM_TestDataFree
    \/ BM_TestBoosterFree
    \/ BM_TestTeardown

SpecBench == Init /\ [][NextBench]_vars

\* ============================================================= claims
Abs(x) == IF x < 0 THEN -x ELSE x

Min(a, b) == IF a < b THEN a ELSE b

TreesReturned == fn = "ROOTToXGBoost_trees" /\ pc = "returned"

MixedReturned == fn = "ROOTToXGBoost_dataset" /\ pc = "returned"

\* The events the running dataset adapter enumerates.
Coll == GetEventCollection(dataset, type)

\* Calls the trainer has made since it was entered.
TrainCalls == SubSeq(calls, callBase + 1, Len(calls))

\* C1: whenever the two-tree adapter returns a bundle, rows [0, n_sig) carry
\* label 0.0 and rows [n_sig, n_sig + n_bgd) carry label 1.0 (signal rows
\* first), and these are the labels attached to the matrix.
C1_TreeLabels ==
    TreesReturned =>
        /\ DOMAIN data.labels = 0..(n_sig + n_bgd - 1)
        /\ \A kk \in 0..(n_sig - 1) : data.labels[kk] = 0
        /\ \A kk \in n_sig..(n_sig + n_bgd - 1) : data.labels[kk] = 1
        /\ calls[Len(calls)].array = data.labels

C1_Witness ==
    /\ TreesReturned
    /\ n_sig = 2
    /\ n_bgd = 3
    /\ data.labels[1] = 0
    /\ data.labels[2] = 1

\* Rows and columns the running adapter is to convert.
RowsIn == IF fn = "ROOTToXGBoost_trees" THEN n_sig + n_bgd ELSE Len(Coll)

ColsIn == IF fn = "ROOTToXGBoost_trees" THEN Len(variables) ELSE dataset.nvars

\* C2: for both adapters the bundle records counts whose sum is the number
\* of rows, its label and weight arrays have exactly that length, the matrix
\* given to XGDMatrixCreateFromMat has that many rows and n_vars columns in
\* every row, and the label array is attached with that same length.
C2_Shape ==
    (fn \in {"ROOTToXGBoost_trees", "ROOTToXGBoost_dataset"} /\ data.allocated) =>
        /\ data.n_sig + data.n_bgd = RowsIn
        /\ DOMAIN data.labels = 0..(data.n_sig + data.n_bgd - 1)
        /\ DOMAIN data.weights = 0..(data.n_sig + data.n_bgd - 1)
        /\ \A c \in 1..Len(calls) :
            /\ calls[c].fn = "XGDMatrixCreateFromMat" =>
                /\ calls[c].nrow = data.n_sig + data.n_bgd
                /\ calls[c].ncol = ColsIn
                /\ DOMAIN calls[c].data =
                       (0..(data.n_sig + data.n_bgd - 1)) \X (0..(ColsIn - 1))
            /\ calls[c].fn = "XGDMatrixSetFloatInfo" =>
                /\ calls[c].len = data.n_sig + data.n_bgd
                /\ DOMAIN calls[c].array = 0..(calls[c].len - 1)
        /\ pc = "returned" =>
            /\ Len(calls) = 2
            /\ calls[1].fn = "XGDMatrixCreateFromMat"
            /\ calls[2].fn = "XGDMatrixSetFloatInfo"
            /\ \A r \in DOMAIN data.labels : data.labels[r] \in {0, 1}

C2_Witness ==
    /\ pc = "returned"
    /\ fn = "ROOTToXGBoost_dataset"
    /\ data.n_sig = 1
    /\ data.n_bgd = 2
    /\ calls[1].nrow = 3
    /\ calls[1].ncol = 2
    /\ calls[2].len = 3

\* C3: with neither weight supplied and both trees non-empty, the computed
\* weights satisfy |sw * n_sig - bw * n_bgd| <= n_sig + n_bgd - 2 * min(n_sig, n_bgd).
C3_BalancedBound ==
    (TreesReturned /\ sig_weight = NullPtr /\ bgd_weight = NullPtr
        /\ n_sig >= 1 /\ n_bgd >= 1) =>
        Abs(data.weights[0] * n_sig - data.weights[n_sig] * n_bgd)
            <= n_sig + n_bgd - 2 * Min(n_sig, n_bgd)

\* C4: a supplied signal weight W is the weight of every row in [0, n_sig),
\* whatever the counts and whether or not a background weight is supplied;
\* a supplied background weight W' is the weight of every row in
\* [n_sig, n_sig + n_bgd); a written row only ever carries its own class's
\* weight.
C4_ExplicitWeights ==
    (fn = "ROOTToXGBoost_trees" /\ data.allocated) =>
        /\ \A kk \in 0..(n_sig - 1) :
            /\ data.weights[kk] \in {Uninit, sw}
            /\ (k > kk \/ pc \notin {"tt_sw", "tt_sigloop"}) => data.weights[kk] = sw
            /\ (sig_weight # NullPtr /\ data.weights[kk] # Uninit) =>
                   data.weights[kk] = sig_weight
        /\ \A kk \in n_sig..(n_sig + n_bgd - 1) :
            /\ data.weights[kk] \in {Uninit, bw}
            /\ pc = "returned" => data.weights[kk] = bw
            /\ (bgd_weight # NullPtr /\ data.weights[kk] # Uninit) =>
                   data.weights[kk] = bgd_weight
        /\ (pc = "returned" /\ sig_weight # NullPtr) =>
               \A kk \in 0..(n_sig - 1) : data.weights[kk] = sig_weight
        /\ (pc = "returned" /\ bgd_weight # NullPtr) =>
               \A kk \in n_sig..(n_sig + n_bgd - 1) : data.weights[kk] = bgd_weight

C4_Witness ==
    /\ TreesReturned
    /\ sig_weight = 3
    /\ bgd_weight = NullPtr
    /\ n_sig = 2
    /\ n_bgd = 4
    /\ data.weights[0] = 3
    /\ data.weights[1] = 3
    /\ data.weights[2] = 1

\* C9: with both trees non-empty, an absent signal weight yields
\* 1 + floor(n_bgd / n_sig) and an absent background weight yields
\* 1 + floor(n_sig / n_bgd), and every row of the class carries it.
C9_BalancedFormula ==
    (fn = "ROOTToXGBoost_trees" /\ data.allocated /\ n_sig >= 1 /\ n_bgd >= 1) =>
        /\ (sig_weight = NullPtr /\ pc # "tt_sw") => sw = 1 + (n_bgd \div n_sig)
        /\ (bgd_weight = NullPtr /\ pc \notin {"tt_sw", "tt_sigloop"}) =>
               bw = 1 + (n_sig \div n_bgd)
        /\ (pc = "returned" /\ sig_weight = NullPtr) =>
               \A kk \in 0..(n_sig - 1) : data.weights[kk] = 1 + (n_bgd \div n_sig)
        /\ (pc = "returned" /\ bgd_weight = NullPtr) =>
               \A kk \in n_sig..(n_sig + n_bgd - 1) :
                   data.weights[kk] = 1 + (n_sig \div n_bgd)

C9_Witness ==
    /\ TreesReturned
    /\ sig_weight = NullPtr
    /\ bgd_weight = NullPtr
    /\ n_sig = 3
    /\ n_bgd = 4
    /\ data.weights[0] = 2
    /\ data.weights[3] = 1


\* Counts the data set records for the selected partition.
RecordedSig == IF type = "kTesting" THEN GetNEvtSigTest(dataset)
               ELSE GetNEvtSigTrain(dataset)

RecordedBgd == IF type = "kTesting" THEN GetNEvtBkgdTest(dataset)
               ELSE GetNEvtBkgdTrain(dataset)

\* C5: in the dataset adapter the r-th enumerated event writes row r and
\* only row r (label 0.0 for a signal event, 1.0 otherwise, its values in
\* the matrix row), whatever the interleaving; in the returned bundle the
\* number of rows labelled 0.0 is the recorded signal count and the number
\* labelled 1.0 the recorded background count of the selected partition.
C5_MixedLabels ==
    (fn = "ROOTToXGBoost_dataset" /\ data.allocated) =>
        /\ \A r \in 0..(i - 1) :
            /\ data.labels[r] = IF Coll[r + 1].cls = "Signal" THEN 0 ELSE 1
            /\ \A c \in 0..(n_vars - 1) :
                   sb_mat[<<r, c>>] = GetValue(EventId(dataset, type, r + 1), c)
        /\ \A r \in DOMAIN data.labels : r >= i =>
            /\ data.labels[r] = Uninit
            /\ data.weights[r] = Uninit
            /\ \A c \in 0..(n_vars - 1) : sb_mat[<<r, c>>] = Uninit
        /\ pc = "returned" =>
            /\ i = Len(Coll)
            /\ Cardinality({r \in DOMAIN data.labels : data.labels[r] = 0}) = RecordedSig
            /\ Cardinality({r \in DOMAIN data.labels : data.labels[r] = 1}) = RecordedBgd
            /\ data.n_sig = RecordedSig
            /\ data.n_bgd = RecordedBgd

C5_Witness ==
    /\ MixedReturned
    /\ type = "kTesting"
    /\ data.n_sig = 1
    /\ data.n_bgd = 2
    /\ data.labels[0] = 1
    /\ data.labels[1] = 0
    /\ data.labels[2] = 1

\* C6: with a selector that is neither kTraining nor kTesting the dataset
\* adapter raises: no event is read, no matrix row is written, no bundle or
\* array is allocated, no call into the library is made, nothing is returned.
C6_BadSelector ==
    (fn = "ROOTToXGBoost_dataset" /\ type \notin {"kTraining", "kTesting"}) =>
        /\ pc \in {"mx_select", "threw"}
        /\ ~data.allocated
        /\ data = NoData
        /\ sb_mat = <<>>
        /\ i = 0
        /\ calls = <<>>

C6_Witness ==
    /\ fn = "ROOTToXGBoost_dataset"
    /\ type = "kValidation"
    /\ pc = "threw"
    /\ Len(dataset.events) = 3
    /\ dataset.nTrain = 1

\* What an event's Double_t weight becomes in a Float_t cell.
StoredWeight(w) == IF w = 16777217 THEN 16777216 ELSE w

ExpectedTrainCalls ==
    <<[fn |-> "XGBoosterCreate", dmats |-> <<DMatHandle>>, len |-> 1, status |-> 0]>>
    \o [x \in 1..Len(opts) |->
           [fn |-> "XGBoosterSetParam", handle |-> BoosterH, name |-> opts[x][1],
            value |-> opts[x][2], status |-> 0]]
    \o [x \in 1..n_iter |->
           [fn |-> "XGBoosterUpdateOneIter", handle |-> BoosterH, iter |-> x - 1,
            dtrain |-> DMatHandle, status |-> 0]]

\* C7: while no call fails, the trainer's calls are a prefix of: one
\* XGBoosterCreate on the bundle's one matrix, one XGBoosterSetParam per
\* entry of opts in list order, then XGBoosterUpdateOneIter for iterations
\* 0 .. n_iter-1 on that matrix; on return they are exactly that sequence
\* and the created booster is the result.
C7_TrainSequence ==
    (fn = "xgboost_train" /\ \A c \in 1..Len(TrainCalls) : TrainCalls[c].status = 0) =>
        /\ Len(TrainCalls) <= Len(ExpectedTrainCalls)
        /\ TrainCalls = SubSeq(ExpectedTrainCalls, 1, Len(TrainCalls))
        /\ pc = "returned" =>
            /\ TrainCalls = ExpectedTrainCalls
            /\ Len(TrainCalls) = 1 + Len(opts) + n_iter
            /\ result = BoosterH

C7_Witness ==
    /\ fn = "xgboost_train"
    /\ pc = "returned"
    /\ Len(opts) = 2
    /\ opts[1] = opts[2]
    /\ n_iter = 2
    /\ Len(TrainCalls) = 5
    /\ TrainCalls[5].iter = 1

\* C8: a call of the trainer that returns a non-zero status is the last
\* call that trainer run makes, and the run ends raised with no booster
\* returned; a run that returns has seen status 0 only.
C8_TrainFailure ==
    fn = "xgboost_train" =>
        /\ \A c \in 1..Len(TrainCalls) : TrainCalls[c].status # 0 =>
            /\ c = Len(TrainCalls)
            /\ pc = "threw"
            /\ result = NoHandle
        /\ pc = "threw" =>
            /\ Len(TrainCalls) >= 1
            /\ TrainCalls[Len(TrainCalls)].status # 0
        /\ pc = "returned" => \A c \in 1..Len(TrainCalls) : TrainCalls[c].status = 0

C8_Witness ==
    /\ fn = "xgboost_train"
    /\ pc = "threw"
    /\ Len(opts) = 2
    /\ n_iter = 2
    /\ Len(TrainCalls) = 2
    /\ TrainCalls[2].fn = "XGBoosterSetParam"
    /\ TrainCalls[2].status # 0


\* Value the two-tree adapter is to put in row r, column c: the c-th
\* requested variable of signal event r, or of background event r - n_sig.
ExpectedCell(r, c) ==
    IF r < n_sig THEN SigVal(r, variables[c + 1])
    ELSE BgdVal(r - n_sig, variables[c + 1])

\* C11: in the two-tree adapter the matrix has one cell per (row, requested
\* variable); while the variables are looped over, the columns before j hold
\* their events' values and the columns from j on are still unwritten, so
\* each cell is written once, in the pass of its column; the matrix given to
\* XGDMatrixCreateFromMat holds in cell (r, c) the c-th requested variable of
\* signal event r (r < n_sig) or of background event r - n_sig.
C11_MatrixLayout ==
    (fn = "ROOTToXGBoost_trees" /\ pc # "idle") =>
        /\ DOMAIN sb_mat = (0..(n_sig + n_bgd - 1)) \X (0..(Len(variables) - 1))
        /\ \A cell \in DOMAIN sb_mat :
               sb_mat[cell] = IF cell[2] < j THEN ExpectedCell(cell[1], cell[2])
                              ELSE Uninit
        /\ \A c \in 1..Len(calls) : calls[c].fn = "XGDMatrixCreateFromMat" =>
            /\ j = Len(variables)
            /\ DOMAIN calls[c].data = (0..(n_sig + n_bgd - 1)) \X (0..(Len(variables) - 1))
            /\ \A cell \in DOMAIN calls[c].data :
                   calls[c].data[cell] = ExpectedCell(cell[1], cell[2])

C11_Witness ==
    /\ TreesReturned
    /\ n_sig = 2
    /\ n_bgd = 1
    /\ variables = <<"var1", "var0">>
    /\ calls[1].data[<<1, 1>>] = 110
    /\ calls[1].data[<<2, 0>>] = 201
    /\ calls[1].data[<<2, 1>>] = 200


\* The two-tree adapter divides by zero for the signal / background weight.
SigDivZero == sig_weight = NullPtr /\ n_sig = 0

BgdDivZero == bgd_weight = NullPtr /\ n_bgd = 0

\* C16: the two-tree adapter reaches XGDMatrixCreateFromMat and
\* returns a bundle only if (signal weight supplied or n_sig >= 1) and
\* (background weight supplied or n_bgd >= 1); with an empty class whose
\* weight is absent no bundle is returned.
C16_NoBundleOnEmptyClass ==
    (fn = "ROOTToXGBoost_trees" /\ (SigDivZero \/ BgdDivZero)) =>
        /\ calls = <<>>
        /\ pc # "returned"


\* ========================================= conversion, then training
\* Either adapter on a small input, then the trainer on the bundle.
NextPipeline ==
    \/ /\ pc = "idle"
       /\ \E ns \in 0..MaxTrainEvents, nb \in 0..MaxTrainEvents,
             vs \in SeqsUpTo(Branches, MaxVars),
             sWt \in WeightArgs, bWt \in WeightArgs : CallTreePair(ns, nb, vs, sWt, bWt)
    \/ TT_FillColumn
    \/ TT_Alloc
    \/ TT_SigWeight
    \/ TT_SigRow
    \/ TT_BgdWeight
    \/ TT_BgdRow
    \/ TT_CreateMat
    \/ TT_SetInfo
    \/ /\ pc = "idle"
       /\ \E ds \in DataSets(MaxTrainEvents), t \in {"kTraining", "kTesting"} :
              CallMixed(ds, t)
    \/ MX_Select
    \/ MX_Event
    \/ MX_CreateMat
    \/ MX_SetInfo
    \/ /\ pc = "returned"
       /\ \E o \in SeqsUpTo(OptPairs, MaxOpts), n \in 0..MaxIter : CallTrain(o, n)
    \/ TR_Create
    \/ TR_SetParam
    \/ TR_Update
    \/ TR_Return

SpecPipeline == Init /\ [][NextPipeline]_vars

\* The conversion of the run was made by the dataset adapter.
FromDataSet == DOMAIN dataset # {}

\* The matrix and the labels the conversion of the run is to produce; neither
\* mentions a weight.
ExpectedMatrix ==
    IF FromDataSet
    THEN [cell \in (0..(Len(Coll) - 1)) \X (0..(dataset.nvars - 1)) |->
             GetValue(EventId(dataset, type, cell[1] + 1), cell[2])]
    ELSE [cell \in (0..(n_sig + n_bgd - 1)) \X (0..(Len(variables) - 1)) |->
             ExpectedCell(cell[1], cell[2])]

ExpectedLabels ==
    IF FromDataSet
    THEN [r \in 0..(Len(Coll) - 1) |-> IF Coll[r + 1].cls = "Signal" THEN 0 ELSE 1]
    ELSE [r \in 0..(n_sig + n_bgd - 1) |-> IF r < n_sig THEN 0 ELSE 1]

ExpectedConvCalls ==
    <<[fn |-> "XGDMatrixCreateFromMat", data |-> ExpectedMatrix,
       nrow |-> n_sig + n_bgd, ncol |-> n_vars, missing |-> 0, status |-> 0],
      [fn |-> "XGDMatrixSetFloatInfo", handle |-> DMatHandle, field |-> "label",
       array |-> ExpectedLabels, len |-> n_sig + n_bgd, status |-> 0]>>

ExpectedPipelineCalls ==
    IF fn = "xgboost_train" THEN ExpectedConvCalls \o ExpectedTrainCalls
    ELSE ExpectedConvCalls

\* C15: the only metadata ever attached to the matrix is the field "label";
\* as long as no call fails, the calls made by a conversion and the training
\* that follows it are, in order and with their arguments, the calls fixed
\* by the feature matrix, the labels, the options and the iteration count
\* alone, whatever the weights (explicit, balanced or per-event) are.
C15_WeightsNeverPassed ==
    /\ \A c \in 1..Len(calls) :
           calls[c].fn = "XGDMatrixSetFloatInfo" => calls[c].field = "label"
    /\ (\A c \in 1..Len(calls) : calls[c].status = 0) =>
        /\ Len(calls) <= Len(ExpectedPipelineCalls)
        /\ calls = SubSeq(ExpectedPipelineCalls, 1, Len(calls))
        /\ pc = "returned" => calls = ExpectedPipelineCalls

C15_Witness ==
    /\ fn = "xgboost_train"
    /\ pc = "returned"
    /\ ~FromDataSet
    /\ sig_weight = 5
    /\ bgd_weight = NullPtr
    /\ n_sig = 1
    /\ n_bgd = 1
    /\ data.weights[0] = 5
    /\ data.weights[1] = 2
    /\ Len(opts) = 2
    /\ n_iter = 2
    /\ Len(calls) = 7


\* ------------------------------------------------------------------ C12
\* C12: two runs of xgboost_train on the identical bundle, the identical
\* ordered hyperparameter list and the identical iteration count make the
\* identical sequence of library calls with identical arguments. The runs
\* are the iterations of the training benchmark's loop, each recorded when
\* the trainer has returned; the hyperparameter value is what the trainer
\* read, which the benchmark's dangling pointer lets differ between runs.
C12_TrainerDeterminism ==
    \A a \in 1..Len(runs), b \in 1..Len(runs) :
        (/\ runs[a].data = runs[b].data
         /\ runs[a].opts = runs[b].opts
         /\ runs[a].n_iter = runs[b].n_iter)
        => runs[a].calls = runs[b].calls

\* Two completed runs on identical inputs, each with an update iteration.
C12_Witness ==
    /\ Len(runs) = 2
    /\ runs[1].data = runs[2].data
    /\ runs[1].opts = runs[2].opts
    /\ runs[1].n_iter = runs[2].n_iter
    /\ runs[1].n_iter >= 1
    /\ Len(runs[1].calls) = 2 + runs[1].n_iter

\* ------------------------------------------------------------------ C13
\* Positions in the log of the calls that free the bundle's matrix handle.
MatrixFrees ==
    {c \in 1..Len(calls) : calls[c].fn = "XGDMatrixFree"
                           /\ calls[c].handle = data.sb_dmats[1]}

\* The call at position c of the log trains or predicts on the matrix handle.
UsesMatrix(c) ==
    \/ calls[c].fn = "XGBoosterUpdateOneIter" /\ calls[c].dtrain = data.sb_dmats[1]
    \/ calls[c].fn = "XGBoosterPredict" /\ calls[c].dmat = data.sb_dmats[1]

\* C13: in every execution of either benchmark, for any number of loop
\* iterations >= 1, the bundle's matrix handle is freed exactly once (never
\* twice, and once when the benchmark has run to its end), and it is never
\* passed to train or predict after it has been freed.
C13_FreedExactlyOnce ==
    /\ Cardinality(MatrixFrees) <= 1
    /\ pc = "done" => Cardinality(MatrixFrees) = 1
    /\ \A f \in MatrixFrees : \A c \in 1..Len(calls) : c > f => ~UsesMatrix(c)

\* ------------------------------------------------------------------ C14
\* C14: every library call has its status checked: a call that returned a
\* non-zero status is the last call made, and the program has raised the
\* error instead of going on.
C14_EveryStatusChecked ==
    \A c \in 1..Len(calls) :
        calls[c].status # 0 => (c = Len(calls) /\ pc = "threw")

====
